---------------------------- MODULE Spec2Model ----------------------------
(***************************************************************************)
(* A model of the voicesim TTS test utility:                               *)
(*   src/src/tts_test/voice_profiles.py   the profile store loader         *)
(*   src/src/tts_test/elevenlabs_tts.py   the speech response normalizer   *)
(*   src/scripts/test_elevenlabs_tts.py   the command line driver          *)
(*                                                                         *)
(* Text is a sequence of one-character strings, bytes are sequences of     *)
(* numbers 0..255, a JSON or Python value is a tagged record [t, v].       *)
(* Four specifications share the variables: SpecLoader (the loader on a    *)
(* directory), SpecExtract (audio extraction on a payload), SpecTTS (one   *)
(* text_to_speech_file call on an output directory) and SpecMain (a run of *)
(* the command line driver).                                               *)
(***************************************************************************)
EXTENDS Integers, Sequences, FiniteSets, TLC

VARIABLES
    config_dir,   \* SpecLoader: the profiles directory given to the loader
    load_out,     \* SpecLoader: what load_voice_profiles returned or raised
    x_payload,    \* SpecExtract: the coerced payload mapping
    x_response,   \* SpecExtract: the attributes of the response object
    x_out,        \* SpecExtract: what _extract_audio_bytes returned or raised
    fs,           \* SpecTTS, SpecMain: the output directory, file name -> content
    tts_call,     \* SpecTTS: the arguments and the API reply of the call
    tts_out,      \* SpecTTS: what text_to_speech_file returned or raised
    args,         \* SpecMain: the parsed command line
    env,          \* SpecMain: the process environment and the .env file
    pc,           \* SpecMain: the position of main
    store,        \* SpecMain: profiles, default and chosen profile of the run
    batch,        \* SpecMain: the texts of the run and the index of the next
    trace         \* SpecMain: the observable steps so far, in order

vars == << config_dir, load_out, x_payload, x_response, x_out, fs, tts_call,
           tts_out, args, env, pc, store, batch, trace >>

loader_vars == << config_dir, load_out >>
extract_vars == << x_payload, x_response, x_out >>
tts_vars == << tts_call, tts_out >>
main_vars == << args, env, pc, store, batch, trace >>

-----------------------------------------------------------------------------
(* Bounds of the model.                                                    *)

\* The most files a modelled profiles directory holds.
MaxFiles == 2
\* The most whitespace characters on each side of the marker file's text.
MaxPad == 1
\* The most bytes of a byte string whose base64 text is a payload value.
MaxBytes == 2
\* The most chunks of a streamed reply.
MaxChunks == 2
\* The most lines of a batch input file.
MaxLines == 2

-----------------------------------------------------------------------------
(* Text.                                                                   *)

\* The characters of the model in code point order, as Python compares str.
CharOrder ==
    << "\n", " ", "#", "-", ".", "0", "1", "2", "3", "4", "5", "6", "7", "8",
       "9", "_", "a", "b", "c", "d", "e", "f", "g", "h", "i", "j", "k", "l",
       "m", "n", "o", "p", "q", "r", "s", "t", "u", "v", "w", "x", "y", "z" >>

Ord(c) == CHOOSE i \in 1..Len(CharOrder) : CharOrder[i] = c

\* s < t for Python str (and for two pathlib paths of one directory).
LexLess(s, t) ==
    \E i \in 1..Len(t) :
        /\ Len(s) >= i - 1
        /\ \A j \in 1..(i - 1) : s[j] = t[j]
        /\ (Len(s) = i - 1 \/ Ord(s[i]) < Ord(t[i]))

Whitespace == {" ", "\n"}

RECURSIVE LStrip(_)
LStrip(s) ==
    IF s # << >> /\ Head(s) \in Whitespace THEN LStrip(Tail(s)) ELSE s

RECURSIVE RStrip(_)
RStrip(s) ==
    IF s # << >> /\ s[Len(s)] \in Whitespace
    THEN RStrip(SubSeq(s, 1, Len(s) - 1))
    ELSE s

\* str.strip()
Strip(s) == RStrip(LStrip(s))

StartsWith(s, p) == Len(s) >= Len(p) /\ SubSeq(s, 1, Len(p)) = p
EndsWith(s, p) ==
    Len(s) >= Len(p) /\ SubSeq(s, Len(s) - Len(p) + 1, Len(s)) = p

\* The positions of character c in s.
Positions(s, c) == {i \in 1..Len(s) : s[i] = c}
MinOf(S) == CHOOSE i \in S : \A j \in S : i <= j
MaxOf(S) == CHOOSE i \in S : \A j \in S : i >= j

\* All sequences over S of length at most n.
RECURSIVE SeqsUpTo(_, _)
SeqsUpTo(S, n) ==
    IF n = 0 THEN {<< >>}
    ELSE LET shorter == SeqsUpTo(S, n - 1)
         IN  shorter \cup {Append(q, e) : q \in shorter, e \in S}

\* The elements of a set of texts from the least to the greatest.
RECURSIVE SortedTexts(_)
SortedTexts(S) ==
    IF S = {} THEN << >>
    ELSE LET least == CHOOSE s \in S : \A t \in S \ {s} : LexLess(s, t)
         IN  << least >> \o SortedTexts(S \ {least})

-----------------------------------------------------------------------------
(* Values and ordered mappings (dict).                                     *)

None == [t |-> "none", v |-> << >>]
Str(s) == [t |-> "str", v |-> s]
Num(s) == [t |-> "num", v |-> s]
Bytes(b) == [t |-> "bytes", v |-> b]
\* A value that is neither None, str, bytes nor a number (a list, a dict).
Other == [t |-> "other", v |-> << >>]

\* Python truthiness of a value.
Truthy(x) ==
    CASE x.t = "none" -> FALSE
      [] x.t \in {"str", "bytes"} -> x.v # << >>
      [] x.t = "num" -> x.v \notin {<< "0" >>, << "0", ".", "0" >>}
      [] OTHER -> TRUE

\* A dict is a sequence of [k, v] pairs in insertion order with unique keys.
DictKeys(d) == {d[i].k : i \in 1..Len(d)}
DictHas(d, key) == key \in DictKeys(d)
DictGet(d, key, default) ==
    IF DictHas(d, key)
    THEN d[CHOOSE i \in 1..Len(d) : d[i].k = key].v
    ELSE default
DictSet(d, key, val) ==
    IF DictHas(d, key)
    THEN [i \in 1..Len(d) |-> IF d[i].k = key THEN [k |-> key, v |-> val] ELSE d[i]]
    ELSE Append(d, [k |-> key, v |-> val])

-----------------------------------------------------------------------------
(* voice_profiles.py: the profile store loader.                            *)

\* An exception: its Python class, which raise statement it comes from, and
\* the profile or file it cites.
Raised(class, kind, about) == [class |-> class, kind |-> kind, about |-> about]
NoError == Raised("", "", << >>)

\* float(x) of a JSON value: a number converts (an integer gains ".0"), a
\* string is parsed, anything else is a TypeError.
IsNumeral(s) ==
    /\ s # << >>
    /\ \A i \in 1..Len(s) : s[i] \in {"0", "1", "2", "3", "4", "5", "6", "7", "8", "9", "."}
    /\ Cardinality(Positions(s, ".")) <= 1
    /\ s # << "." >>
Float(x) ==
    CASE x.t = "num" ->
            [err |-> NoError,
             val |-> IF Positions(x.v, ".") = {} THEN x.v \o << ".", "0" >> ELSE x.v]
      [] x.t = "str" /\ IsNumeral(Strip(x.v)) ->
            [err |-> NoError,
             val |-> IF Positions(Strip(x.v), ".") = {}
                     THEN Strip(x.v) \o << ".", "0" >> ELSE Strip(x.v)]
      [] x.t = "str" -> [err |-> Raised("ValueError", "float", x.v), val |-> << >>]
      [] OTHER -> [err |-> Raised("TypeError", "float", << >>), val |-> << >>]

\* A JSON object is a function from its keys to values; item.get(key, default).
ItemGet(item, key, default) == IF key \in DOMAIN item THEN item[key] ELSE default

\* The numeric fields of a record with their defaults, in constructor order.
NumericFields ==
    << [key |-> "stability", default |-> Num(<< "0", ".", "5" >>)],
       [key |-> "similarityBoost", default |-> Num(<< "0", ".", "5" >>)],
       [key |-> "styleExaggeration", default |-> Num(<< "0", ".", "0" >>)],
       [key |-> "speed", default |-> Num(<< "1", ".", "0" >>)] >>

NumericOf(item, i) == Float(ItemGet(item, NumericFields[i].key, NumericFields[i].default))

NoProfile ==
    [name |-> << >>, profile_id |-> None, voice_id |-> None, model_id |-> None,
     stability |-> << >>, similarity_boost |-> << >>,
     style_exaggeration |-> << >>, speed |-> << >>]

\* The required-field checks of _build_profile, modelId before voiceId.
required_field_error_swapped(name, item) ==
    IF ~Truthy(ItemGet(item, "modelId", None))
    THEN Raised("ValueError", "missing modelId", name)
    ELSE IF ~Truthy(ItemGet(item, "voiceId", None))
    THEN Raised("ValueError", "missing voiceId", name)
    ELSE NoError

\* The required-field checks of _build_profile in their order: the error
\* raised, or NoError.
required_field_error(name, item) ==
    IF ~Truthy(ItemGet(item, "voiceId", None))
    THEN Raised("ValueError", "missing voiceId", name)
    ELSE IF ~Truthy(ItemGet(item, "modelId", None))
    THEN Raised("ValueError", "missing modelId", name)
    ELSE NoError

\* _build_profile(name, item): [err, profile].
build_profile(name, item) ==
    LET required == required_field_error(name, item)
        bad == {i \in 1..Len(NumericFields) : NumericOf(item, i).err # NoError}
    IN  IF required # NoError THEN [err |-> required, profile |-> NoProfile]
        ELSE IF bad # {}
        THEN [err |-> NumericOf(item, MinOf(bad)).err, profile |-> NoProfile]
        ELSE [err |-> NoError,
              profile |->
                [name |-> name,
                 profile_id |-> ItemGet(item, "profileId", Str(name)),
                 voice_id |-> item["voiceId"],
                 model_id |-> item["modelId"],
                 stability |-> NumericOf(item, 1).val,
                 similarity_boost |-> NumericOf(item, 2).val,
                 style_exaggeration |-> NumericOf(item, 3).val,
                 speed |-> NumericOf(item, 4).val]]

JsonSuffix == << ".", "j", "s", "o", "n" >>
MarkerName ==
    << "d", "e", "f", "a", "u", "l", "t", "_", "p", "r", "o", "f", "i", "l", "e",
       ".", "t", "x", "t" >>

\* pathlib's stem: the name up to its last dot, unless that dot leads the name.
Stem(file_name) ==
    LET dots == Positions(file_name, ".") \ {1}
    IN  IF dots = {} THEN file_name ELSE SubSeq(file_name, 1, MaxOf(dots) - 1)

\* The names glob("*.json") yields, in no order.
glob_json(dir) == {n \in DOMAIN dir.files : EndsWith(n, JsonSuffix)}

\* The globbed files ordered by stem instead of by file name.
sorted_json_files_by_stem(dir) ==
    LET byStem == SortedTexts({Stem(n) : n \in glob_json(dir)})
    IN  [i \in 1..Len(byStem) |-> byStem[i] \o JsonSuffix]

\* sorted(config_dir.glob("*.json")): paths of one directory compare by name.
sorted_json_files(dir) == SortedTexts(glob_json(dir))

\* The declared id is never compared with the file's stem.
id_mismatch_unchecked(profile_id, profile_name) == FALSE

\* profile_id != profile_name, where profile_id is item.get("profileId").
id_mismatch(profile_id, profile_name) == profile_id # Str(profile_name)

\* The loop of _load_from_directory from file i on: [err, profiles].
RECURSIVE load_files(_, _, _, _)
load_files(dir, files, i, profiles) ==
    IF i > Len(files) THEN [err |-> NoError, profiles |-> profiles]
    ELSE LET item == dir.files[files[i]]
             profile_name == Stem(files[i])
             built == build_profile(profile_name, item)
         IN  IF id_mismatch(ItemGet(item, "profileId", None), profile_name)
             THEN [err |-> Raised("ValueError", "profile id mismatch", files[i]),
                   profiles |-> << >>]
             ELSE IF built.err # NoError
             THEN [err |-> built.err, profiles |-> << >>]
             ELSE load_files(dir, files, i + 1,
                             DictSet(profiles, profile_name, built.profile))

\* The default profile name from the marker file and the loaded profiles.
resolve_default(dir, profiles) ==
    LET default_profile == IF dir.marker.exists THEN Strip(dir.marker.text) ELSE << >>
    IN  IF ~DictHas(profiles, default_profile) THEN profiles[1].k ELSE default_profile

LoadResult(status, err, profiles, default_profile) ==
    [status |-> status, err |-> err, profiles |-> profiles,
     default_profile |-> default_profile]
NotLoaded == LoadResult("pending", NoError, << >>, << >>)

\* _load_from_directory(config_dir)
load_from_directory(dir) ==
    LET files == sorted_json_files(dir)
        loaded == load_files(dir, files, 1, << >>)
    IN  IF files = << >>
        THEN LoadResult("raised", Raised("ValueError", "no profile files", << >>), << >>, << >>)
        ELSE IF loaded.err # NoError
        THEN LoadResult("raised", loaded.err, << >>, << >>)
        ELSE LoadResult("returned", NoError, loaded.profiles,
                        resolve_default(dir, loaded.profiles))

\* load_voice_profiles(config_path)
load_voice_profiles(dir) ==
    IF ~dir.is_dir
    THEN LoadResult("raised", Raised("ValueError", "not a directory", << >>), << >>, << >>)
    ELSE load_from_directory(dir)

-----------------------------------------------------------------------------
(* SpecLoader: load_voice_profiles applied to a profiles directory.        *)

\* The value of a variable that a specification does not use.
Unused == << >>

Absent == [t |-> "absent", v |-> << >>]
\* The JSON object with `key` set to `choice`, or without it.
Field(key, choice) == IF choice = Absent THEN << >> ELSE (key :> choice)

MakeItem(profileId, voiceId, modelId, stability) ==
    Field("profileId", profileId) @@ Field("voiceId", voiceId)
        @@ Field("modelId", modelId) @@ Field("stability", stability)

\* The records tried as the content of a profile file named stem.json.
ItemsFor(stem) ==
    {MakeItem(p, v, m, s) :
        p \in {Absent, Str(stem), Str(<< "x" >>)},
        v \in {Absent, Str(<< "v", "1" >>)},
        m \in {Str(<< >>), Str(<< "m", "1" >>)},
        s \in {Absent}}
    \cup {MakeItem(p, Str(<< "v", "1" >>), Str(<< "m", "1" >>), None) :
            p \in {Absent, Str(stem), Str(<< "x" >>)}}

ProfileFileNames ==
    {<< "a" >> \o JsonSuffix, << "a", "-", "b" >> \o JsonSuffix, << "b" >> \o JsonSuffix}
NotesFileName == << "n", ".", "t", "x", "t" >>
DirFileNames == ProfileFileNames \cup {NotesFileName}
AllItems == UNION {ItemsFor(Stem(n)) : n \in ProfileFileNames}

\* The contents of a directory holding exactly the files S.
FilesOver(S) ==
    {f \in [S -> AllItems] :
        \A n \in S : IF n = NotesFileName
                     THEN f[n] = MakeItem(Absent, Absent, Str(<< >>), Absent)
                     ELSE f[n] \in ItemsFor(Stem(n))}

NoMarker == [exists |-> FALSE, text |-> << >>]
Markers ==
    {NoMarker} \cup
    {[exists |-> TRUE, text |-> l \o name \o r] :
        l \in SeqsUpTo({" "}, MaxPad),
        name \in {<< >>, << "a" >>, << "b" >>, << "z" >>},
        r \in SeqsUpTo({"\n"}, MaxPad)}

NotADirectory == [is_dir |-> FALSE, files |-> << >>, marker |-> NoMarker]
Directories ==
    {NotADirectory} \cup
    {[is_dir |-> TRUE, files |-> f, marker |-> m] :
        f \in UNION {FilesOver(S) :
                        S \in {T \in SUBSET DirFileNames : Cardinality(T) <= MaxFiles}},
        m \in Markers}

InitLoader ==
    /\ config_dir \in Directories
    /\ load_out = NotLoaded
    /\ x_payload = Unused /\ x_response = Unused /\ x_out = Unused
    /\ fs = Unused /\ tts_call = Unused /\ tts_out = Unused
    /\ args = Unused /\ env = Unused /\ pc = Unused
    /\ store = Unused /\ batch = Unused /\ trace = Unused

\* One call of load_voice_profiles(config_dir).
LoadVoiceProfiles ==
    /\ load_out.status = "pending"
    /\ load_out' = load_voice_profiles(config_dir)
    /\ UNCHANGED << config_dir, extract_vars, fs, tts_vars, main_vars >>

NextLoader == LoadVoiceProfiles
SpecLoader == InitLoader /\ [][NextLoader]_vars

\* What the claims about the loader speak of.
ProfileFiles == {n \in DOMAIN config_dir.files : EndsWith(n, JsonSuffix)}
SortsBefore(n, m) == LexLess(n, m)
\* The record of file n declares a profileId and it is not the file's stem.
DeclaresOtherId(n) ==
    /\ "profileId" \in DOMAIN config_dir.files[n]
    /\ config_dir.files[n]["profileId"] # Str(Stem(n))
HasField(n, key) ==
    /\ key \in DOMAIN config_dir.files[n]
    /\ config_dir.files[n][key].t = "str"
    /\ config_dir.files[n][key].v # << >>
\* A numeric field of the record of file n holds what float() takes.
NumericsCoercible(n) ==
    \A key \in {"stability", "similarityBoost", "styleExaggeration", "speed"} :
        key \in DOMAIN config_dir.files[n] => config_dir.files[n][key].t = "num"
Loaded == load_out.status = "returned"
LoadFailed == load_out.status = "raised"

\* C2: when the load succeeds the default name is a key of the mapping; it is
\* the trimmed text of default_profile.txt when that file exists and names a
\* loaded profile, and otherwise the profile of the file that is first in
\* sorted file name order.
C2_DefaultResolved ==
    Loaded =>
        LET keys == DictKeys(load_out.profiles)
            named == Strip(config_dir.marker.text)
            first == CHOOSE n \in ProfileFiles :
                        \A m \in ProfileFiles \ {n} : SortsBefore(n, m)
        IN  /\ load_out.default_profile \in keys
            /\ IF config_dir.marker.exists /\ named \in keys
               THEN load_out.default_profile = named
               ELSE load_out.default_profile = Stem(first)

\* C2 witness: two profiles are loaded and a padded marker names the second.
C2_Witness ==
    /\ Loaded
    /\ Len(load_out.profiles) = 2
    /\ config_dir.marker.exists
    /\ Strip(config_dir.marker.text) # config_dir.marker.text
    /\ load_out.default_profile = load_out.profiles[2].k

EveryLoadedProfileKeepsItsId ==
    Loaded =>
        \A i \in 1..Len(load_out.profiles) :
            /\ load_out.profiles[i].v.name = load_out.profiles[i].k
            /\ load_out.profiles[i].v.profile_id = Str(load_out.profiles[i].k)
            /\ load_out.profiles[i].k \in {Stem(n) : n \in ProfileFiles}

\* C3 as stated: a record declaring a profileId other than its file's stem
\* makes the load fail with ConfigurationError (ValueError) and no mapping;
\* every loaded profile has profile_id = name = its key.
C3_Original ==
    /\ (load_out.status # "pending" /\ \E n \in ProfileFiles : DeclaresOtherId(n)) =>
            /\ LoadFailed
            /\ load_out.profiles = << >>
            /\ load_out.err.class = "ValueError"
    /\ EveryLoadedProfileKeepsItsId

\* C3 amended: such a record makes the load fail with no mapping, and the
\* failure is a ConfigurationError (ValueError) unless a record sorted before
\* every such record has a numeric field that float() rejects; every loaded
\* profile has profile_id = name = its key.
C3_MismatchRejected ==
    /\ (load_out.status # "pending" /\ \E n \in ProfileFiles : DeclaresOtherId(n)) =>
            /\ LoadFailed
            /\ load_out.profiles = << >>
            /\ \/ load_out.err.class = "ValueError"
               \/ \E e \in ProfileFiles :
                    /\ ~NumericsCoercible(e)
                    /\ \A n \in ProfileFiles : DeclaresOtherId(n) => SortsBefore(e, n)
    /\ EveryLoadedProfileKeepsItsId

\* C3 witness: the first file is fine, the second declares another id, and
\* the load failed on that mismatch.
C3_Witness ==
    /\ LoadFailed
    /\ load_out.err.kind = "profile id mismatch"
    /\ \E n, m \in ProfileFiles :
        /\ SortsBefore(n, m)
        /\ ~DeclaresOtherId(n)
        /\ DeclaresOtherId(m)
        /\ load_out.err.about = m

\* Every record is acceptable when profileId is optional.
AllRecordsFineButForOptionalId ==
    /\ config_dir.is_dir
    /\ ProfileFiles # {}
    /\ \A n \in ProfileFiles :
        /\ ~DeclaresOtherId(n)
        /\ HasField(n, "voiceId")
        /\ HasField(n, "modelId")
        /\ NumericsCoercible(n)

\* C4: the profileId check applies only when the field is present: a record
\* without profileId and with voiceId and modelId is loaded under its stem,
\* its profile_id being that stem.
C4_AbsentIdLoads ==
    (load_out.status # "pending" /\ AllRecordsFineButForOptionalId) =>
        /\ Loaded
        /\ \A n \in ProfileFiles :
            /\ DictHas(load_out.profiles, Stem(n))
            /\ DictGet(load_out.profiles, Stem(n), NoProfile).profile_id = Str(Stem(n))

\* The first profile file, in sorted order, whose record breaks a rule, the
\* rules being given by Breaks(n) (a set of rule names).
FirstBreaking(Breaks(_)) ==
    CHOOSE n \in ProfileFiles :
        /\ Breaks(n) # {}
        /\ \A m \in ProfileFiles \ {n} : Breaks(m) # {} => SortsBefore(n, m)
\* No file sorted before n stops the load on a numeric field.
NoEarlierCoercionFailure(n) ==
    \A m \in ProfileFiles : SortsBefore(m, n) => NumericsCoercible(m)

RulesBrokenAsStated(n) ==
    (IF HasField(n, "voiceId") THEN {} ELSE {"a"})
    \cup (IF HasField(n, "modelId") THEN {} ELSE {"b"})
    \cup (IF DeclaresOtherId(n) THEN {"c"} ELSE {})

\* C9 as stated: the rules are applied in the order (a) voiceId, (b) modelId,
\* (c) profileId, so the error is that of the earliest rule broken (stated
\* for directories whose records all declare a profileId).
C9_Original ==
    (load_out.status # "pending" /\ config_dir.is_dir
        /\ (\A m \in ProfileFiles : "profileId" \in DOMAIN config_dir.files[m])
        /\ \E n \in ProfileFiles : RulesBrokenAsStated(n) # {}) =>
        LET n == FirstBreaking(RulesBrokenAsStated)
        IN  NoEarlierCoercionFailure(n) =>
                load_out.err =
                    IF "a" \in RulesBrokenAsStated(n)
                    THEN Raised("ValueError", "missing voiceId", Stem(n))
                    ELSE IF "b" \in RulesBrokenAsStated(n)
                    THEN Raised("ValueError", "missing modelId", Stem(n))
                    ELSE Raised("ValueError", "profile id mismatch", n)

RulesBrokenInCode(n) ==
    (IF HasField(n, "voiceId") THEN {} ELSE {"a"})
    \cup (IF HasField(n, "modelId") THEN {} ELSE {"b"})
    \cup (IF DeclaresOtherId(n) \/ "profileId" \notin DOMAIN config_dir.files[n]
          THEN {"c"} ELSE {})

\* C9 amended: the rules are applied in the order (c) profileId is present
\* and equals the stem, (a) voiceId, (b) modelId, and the error is that of
\* the earliest rule broken in this order.
C9_ValidationOrder ==
    (load_out.status # "pending" /\ config_dir.is_dir
        /\ \E n \in ProfileFiles : RulesBrokenInCode(n) # {}) =>
        LET n == FirstBreaking(RulesBrokenInCode)
        IN  NoEarlierCoercionFailure(n) =>
                load_out.err =
                    IF "c" \in RulesBrokenInCode(n)
                    THEN Raised("ValueError", "profile id mismatch", n)
                    ELSE IF "a" \in RulesBrokenInCode(n)
                    THEN Raised("ValueError", "missing voiceId", Stem(n))
                    ELSE Raised("ValueError", "missing modelId", Stem(n))

\* C9 witness: a record with its own id lacks voiceId and modelId, and the
\* load failed on the missing voiceId.
C9_Witness ==
    /\ LoadFailed
    /\ load_out.err.kind = "missing voiceId"
    /\ \E n \in ProfileFiles :
        /\ load_out.err.about = Stem(n)
        /\ RulesBrokenInCode(n) = {"a", "b"}

-----------------------------------------------------------------------------
(* elevenlabs_tts.py: audio extraction.                                    *)

\* A character of a str handed to base64.b64decode is modelled by its place
\* in the base64 alphabet: 0..63 a data character, 64 the pad "=", 65 any
\* other ASCII character, 66 a character outside ASCII.
B64Pad == [code |-> 64]
B64Junk == [code |-> 65]
B64NonAscii == [code |-> 66]

\* base64.b64encode(b), the text a payload carries for the bytes b.
RECURSIVE b64encode(_)
b64encode(b) ==
    IF Len(b) = 0 THEN << >>
    ELSE IF Len(b) = 1
    THEN << b[1] \div 4, (b[1] % 4) * 16, B64Pad.code, B64Pad.code >>
    ELSE IF Len(b) = 2
    THEN << b[1] \div 4, (b[1] % 4) * 16 + b[2] \div 16, (b[2] % 16) * 4,
            B64Pad.code >>
    ELSE << b[1] \div 4, (b[1] % 4) * 16 + b[2] \div 16,
            (b[2] % 16) * 4 + b[3] \div 64, b[3] % 64 >>
         \o b64encode(SubSeq(b, 4, Len(b)))

Decoded(ok, bytes) == [ok |-> ok, bytes |-> bytes]

\* binascii.a2b_base64 without strict mode, from character i on: quad is the
\* place in the current group of four, left the bits carried over, pads the
\* pads seen in a row.
RECURSIVE a2b_base64(_, _, _, _, _, _)
a2b_base64(s, i, quad, left, pads, out) ==
    IF i > Len(s) THEN Decoded(quad = 0, IF quad = 0 THEN out ELSE << >>)
    ELSE IF s[i] = B64Pad.code
    THEN IF quad >= 2 /\ quad + pads + 1 >= 4
         THEN Decoded(TRUE, out)
         ELSE a2b_base64(s, i + 1, quad, left, IF quad >= 2 THEN pads + 1 ELSE pads, out)
    ELSE IF s[i] > B64Pad.code
    THEN a2b_base64(s, i + 1, quad, left, pads, out)
    ELSE CASE quad = 0 -> a2b_base64(s, i + 1, 1, s[i], 0, out)
           [] quad = 1 -> a2b_base64(s, i + 1, 2, s[i] % 16, 0,
                                     Append(out, left * 4 + s[i] \div 16))
           [] quad = 2 -> a2b_base64(s, i + 1, 3, s[i] % 4, 0,
                                     Append(out, left * 16 + s[i] \div 4))
           [] OTHER -> a2b_base64(s, i + 1, 0, 0, 0, Append(out, left * 64 + s[i]))

\* base64.b64decode(s) of a str: it must be ASCII, then a2b_base64 decodes it.
b64decode(s) ==
    IF \E i \in 1..Len(s) : s[i] = B64NonAscii.code
    THEN Decoded(FALSE, << >>)
    ELSE a2b_base64(s, 1, 0, 0, 0, << >>)

K_audio_base64 == << "a", "u", "d", "i", "o", "_", "b", "a", "s", "e", "6", "4" >>
K_audio_base_64 == << "a", "u", "d", "i", "o", "_", "b", "a", "s", "e", "_", "6", "4" >>
K_audio == << "a", "u", "d", "i", "o" >>
K_alignment == << "a", "l", "i", "g", "n", "m", "e", "n", "t" >>

\* The field names probed for audio, with audio tried before audio_base_64.
audio_field_names_reordered == << K_audio_base64, K_audio, K_audio_base_64 >>

\* The field names probed for audio, in their order.
audio_field_names == << K_audio_base64, K_audio_base_64, K_audio >>

\* The candidates list: payload.get(name) for each name, then getattr for
\* each name the response object has.
candidates(payload, response_attrs) ==
    [i \in 1..Len(audio_field_names) |-> DictGet(payload, audio_field_names[i], None)]
    \o [i \in 1..Len(SelectSeq(audio_field_names, LAMBDA n : DictHas(response_attrs, n)))
          |-> DictGet(response_attrs,
                      SelectSeq(audio_field_names,
                                LAMBDA n : DictHas(response_attrs, n))[i], None)]

Extracted(status, bytes, err) == [status |-> status, bytes |-> bytes, err |-> err]
NotExtracted == Extracted("pending", << >>, NoError)

\* The loop over the candidates from candidate i on.
RECURSIVE first_audio(_, _, _)
first_audio(payload, cands, i) ==
    IF i > Len(cands)
    THEN Extracted("raised", << >>,
                   Raised("ValueError", "no audio field", SortedTexts(DictKeys(payload))))
    ELSE IF cands[i].t = "none" THEN first_audio(payload, cands, i + 1)
    ELSE IF cands[i].t = "bytes" THEN Extracted("returned", cands[i].v, NoError)
    ELSE IF cands[i].t = "str" /\ b64decode(cands[i].v).ok
    THEN Extracted("returned", b64decode(cands[i].v).bytes, NoError)
    ELSE first_audio(payload, cands, i + 1)

\* _extract_audio_bytes(payload, response_obj)
extract_audio_bytes(payload, response_attrs) ==
    first_audio(payload, candidates(payload, response_attrs), 1)

-----------------------------------------------------------------------------
(* SpecExtract: _extract_audio_bytes applied to a payload and a response.  *)

SampleBytes == {0, 77, 255}
ByteStrings == SeqsUpTo(SampleBytes, MaxBytes)

\* Texts that b64decode rejects: one data character, a missing pad, a
\* character outside ASCII.
UndecodableTexts == {<< 16 >>, << 19, 16 >>, << B64NonAscii.code, 19, 16, 19, 16 >>}
\* Texts that b64decode takes although no encoder wrote them: a stray
\* character inside, data after the pad.
TolerantTexts ==
    {<< 19, B64Junk.code, 16, B64Pad.code, B64Pad.code >>,
     << 19, 16, B64Pad.code, B64Pad.code, 19, 16 >>}

\* The dict with the given values under the given keys, Absent leaving the
\* key out.
RECURSIVE DictOf(_, _)
DictOf(keys, vals) ==
    IF keys = << >> THEN << >>
    ELSE LET rest == DictOf(Tail(keys), Tail(vals))
         IN  IF Head(vals) = Absent THEN rest
             ELSE << [k |-> Head(keys), v |-> Head(vals)] >> \o rest

FirstFieldValues ==
    {Absent, None, Other, Bytes(<< 1 >>)}
    \cup {Str(b64encode(b)) : b \in ByteStrings}
    \cup {Str(t) : t \in UndecodableTexts \cup TolerantTexts}
LaterFieldValues(slot) ==
    {Absent, None, Bytes(<< slot >>), Str(b64encode(<< 10 + slot >>)), Str(<< 16 >>)}
AttrValues(slot) == {Absent, Bytes(<< slot >>), Str(b64encode(<< 10 + slot >>))}

ExtractPayloads ==
    {DictOf(<< K_alignment, K_audio, K_audio_base_64, K_audio_base64 >>, << al, a3, a2, a1 >>) :
        al \in {Absent, Other},
        a3 \in LaterFieldValues(3),
        a2 \in LaterFieldValues(2),
        a1 \in FirstFieldValues}
ExtractResponses ==
    {DictOf(audio_field_names, << r1, r2, r3 >>) :
        r1 \in AttrValues(4), r2 \in AttrValues(5), r3 \in AttrValues(6)}

InitExtract ==
    /\ x_payload \in ExtractPayloads
    /\ x_response \in ExtractResponses
    /\ x_out = NotExtracted
    /\ config_dir = Unused /\ load_out = Unused
    /\ fs = Unused /\ tts_call = Unused /\ tts_out = Unused
    /\ args = Unused /\ env = Unused /\ pc = Unused
    /\ store = Unused /\ batch = Unused /\ trace = Unused

\* One call of _extract_audio_bytes(payload, response).
ExtractAudioBytes ==
    /\ x_out.status = "pending"
    /\ x_out' = extract_audio_bytes(x_payload, x_response)
    /\ UNCHANGED << x_payload, x_response, loader_vars, fs, tts_vars, main_vars >>

NextExtract == ExtractAudioBytes
SpecExtract == InitExtract /\ [][NextExtract]_vars

\* The six candidates in the order of the claim, Absent where there is none.
ClaimedCandidates ==
    << DictGet(x_payload, K_audio_base64, Absent),
       DictGet(x_payload, K_audio_base_64, Absent),
       DictGet(x_payload, K_audio, Absent),
       DictGet(x_response, K_audio_base64, Absent),
       DictGet(x_response, K_audio_base_64, Absent),
       DictGet(x_response, K_audio, Absent) >>
\* A candidate that is raw bytes or a str that base64-decodes.
Qualifies(x) == x.t = "bytes" \/ (x.t = "str" /\ b64decode(x.v).ok)
AudioOf(x) == IF x.t = "bytes" THEN x.v ELSE b64decode(x.v).bytes
IsSortedListOf(q, S) ==
    /\ Len(q) = Cardinality(S)
    /\ {q[i] : i \in 1..Len(q)} = S
    /\ \A i \in 1..(Len(q) - 1) : LexLess(q[i], q[i + 1])

\* C5: _extract_audio_bytes returns the first candidate, in the order
\* audio_base64, audio_base_64, audio of the mapping and then of the
\* response object, that is bytes (as is) or a str that base64-decodes
\* (decoded); audio_base64 = base64(X) yields X; with no such candidate it
\* fails citing the sorted payload keys.
C5_FirstQualifyingCandidate ==
    x_out.status # "pending" =>
        LET good == {i \in 1..Len(ClaimedCandidates) : Qualifies(ClaimedCandidates[i])}
        IN  /\ good # {} =>
                /\ x_out.status = "returned"
                /\ x_out.bytes = AudioOf(ClaimedCandidates[MinOf(good)])
            /\ good = {} =>
                /\ x_out.status = "raised"
                /\ x_out.err.class = "ValueError"
                /\ IsSortedListOf(x_out.err.about, DictKeys(x_payload))
            /\ \A b \in ByteStrings :
                DictGet(x_payload, K_audio_base64, Absent) = Str(b64encode(b)) =>
                    x_out = Extracted("returned", b, NoError)

\* C5 witness: audio_base64 does not decode, audio_base_64 is None, audio is
\* of another kind or absent, and the audio came from an attribute of the
\* response object although a later attribute qualifies too.
C5_Witness ==
    /\ x_out.status = "returned"
    /\ ClaimedCandidates[1].t = "str" /\ ~Qualifies(ClaimedCandidates[1])
    /\ ClaimedCandidates[2] = None
    /\ ClaimedCandidates[3] = Absent
    /\ ClaimedCandidates[4] = Absent
    /\ ClaimedCandidates[5].t = "str"
    /\ Qualifies(ClaimedCandidates[6])
    /\ x_out.bytes = << 15 >>

-----------------------------------------------------------------------------
(* elevenlabs_tts.py: text_to_speech_file.                                 *)

F_pcm_16000 == << "p", "c", "m", "_", "1", "6", "0", "0", "0" >>
F_mp3_22050_32 == << "m", "p", "3", "_", "2", "2", "0", "5", "0", "_", "3", "2" >>
X_wav == << "w", "a", "v" >>
X_json == << "j", "s", "o", "n" >>

\* _extension_for_output_format(output_format)
extension_for_output_format(output_format) ==
    IF output_format = F_pcm_16000 THEN X_wav
    ELSE IF Positions(output_format, "_") = {} THEN output_format
    ELSE SubSeq(output_format, 1, MinOf(Positions(output_format, "_")) - 1)

\* f"{file_id}.{extension}", the name of a file of the output directory.
FileName(file_id, extension) == file_id \o << "." >> \o extension

\* What a file holds: the bytes written as they are.
RawFile(bytes) == [kind |-> "raw", data |-> bytes]

\* _write_pcm_16khz_wav: what the wave module writes for the frames pcm_bytes.
write_pcm_16khz_wav(pcm_bytes) ==
    [kind |-> "wav", nchannels |-> 1, sampwidth |-> 2, framerate |-> 16000,
     nframes |-> Len(pcm_bytes) \div 2, data_size |-> Len(pcm_bytes),
     data |-> pcm_bytes]

\* _write_audio_file: the content written for audio_bytes in output_format.
audio_file_content(output_format, audio_bytes) ==
    IF output_format = F_pcm_16000
    THEN write_pcm_16khz_wav(audio_bytes)
    ELSE RawFile(audio_bytes)

\* The files of a directory after path is written (created or overwritten).
WriteFile(files, path, content) == (path :> content) @@ files

\* A response object: whether it is a dict (mapping), and what each way of
\* dumping it yields, isdict telling whether that is a dict.
NoDump == [isdict |-> FALSE, d |-> << >>]
DumpOf(d) == [isdict |-> TRUE, d |-> d]
Response(shape, mapping, attrs) ==
    [is_dict |-> shape = "dict",
     mapping |-> IF shape = "dict" THEN mapping ELSE << >>,
     has_model_dump |-> shape \in {"model", "model_plain"},
     dump_alias |-> IF shape = "model" THEN DumpOf(mapping) ELSE NoDump,
     dump_plain |-> IF shape \in {"model", "model_plain"} THEN DumpOf(mapping) ELSE NoDump,
     has_dict_method |-> shape = "legacy",
     dict_method |-> IF shape = "legacy" THEN DumpOf(mapping) ELSE NoDump,
     has_vars |-> shape = "bag",
     vars |-> IF shape = "bag" THEN mapping ELSE << >>,
     attrs |-> IF shape = "bag" THEN mapping ELSE IF shape = "dict" THEN << >> ELSE attrs]

\* _to_serializable(obj): [err, payload].
to_serializable(obj) ==
    IF obj.is_dict THEN [err |-> NoError, payload |-> obj.mapping]
    ELSE IF obj.has_model_dump /\ obj.dump_alias.isdict
    THEN [err |-> NoError, payload |-> obj.dump_alias.d]
    ELSE IF obj.has_model_dump /\ obj.dump_plain.isdict
    THEN [err |-> NoError, payload |-> obj.dump_plain.d]
    ELSE IF obj.has_dict_method /\ obj.dict_method.isdict
    THEN [err |-> NoError, payload |-> obj.dict_method.d]
    ELSE IF obj.has_vars THEN [err |-> NoError, payload |-> obj.vars]
    ELSE [err |-> Raised("ValueError", "unable to serialize", << >>), payload |-> << >>]

\* Only audio_base64 is left out of the sidecar.
payload_without_audio_first_only(payload) ==
    SelectSeq(payload, LAMBDA e : e.k # K_audio_base64)

\* The payload without its audio-bearing keys, the other entries in order.
payload_without_audio(payload) ==
    SelectSeq(payload, LAMBDA e : e.k \notin {K_audio_base64, K_audio_base_64, K_audio})

\* The metadata record of the sidecar.
metadata_of(text, profile, output_format, payload) ==
    [provider |-> "elevenlabs",
     profile_name |-> profile.name,
     voiceProfile |->
        [profileId |-> profile.profile_id, voiceId |-> profile.voice_id,
         modelId |-> profile.model_id, stability |-> profile.stability,
         similarityBoost |-> profile.similarity_boost,
         styleExaggeration |-> profile.style_exaggeration, speed |-> profile.speed],
     output_format |-> output_format,
     text |-> text,
     response |-> payload_without_audio(payload)]

\* json.dump takes None, str, numbers, lists and dicts, and no bytes.
JsonSerializable(d) == \A i \in 1..Len(d) : d[i].v.t # "bytes"
\* What json.dump(metadata, f) leaves in the file.
JsonFile(metadata) ==
    IF JsonSerializable(metadata.response)
    THEN [kind |-> "json", doc |-> metadata]
    ELSE [kind |-> "truncated json", doc |-> << >>]

\* A path or None.
NoPath == [some |-> FALSE, name |-> << >>]
SomePath(name) == [some |-> TRUE, name |-> name]

TtsResult(status, output_path, metadata_path, err) ==
    [status |-> status, output_path |-> output_path,
     metadata_path |-> metadata_path, err |-> err]
TtsPending == TtsResult("pending", NoPath, NoPath, NoError)
TtsRaised(err) == TtsResult("raised", NoPath, NoPath, err)

\* The non-empty chunks of a stream joined in arrival order.
RECURSIVE join_chunks(_)
join_chunks(chunks) ==
    IF chunks = << >> THEN << >>
    ELSE (IF Head(chunks) # << >> THEN Head(chunks) ELSE << >>) \o join_chunks(Tail(chunks))

\* The directory after output_dir.mkdir(parents=True, exist_ok=True).
Mkdir(dir) == [exists |-> TRUE, files |-> dir.files]

\* The branch save_metadata of text_to_speech_file: [fs, out].
tts_with_metadata(dir, c, file_id, output_path) ==
    LET made == Mkdir(dir)
        coerced == to_serializable(c.reply.response)
        audio == extract_audio_bytes(coerced.payload, c.reply.response.attrs)
        with_audio == WriteFile(made.files, output_path,
                                audio_file_content(c.output_format, audio.bytes))
        metadata_path == FileName(file_id, X_json)
        sidecar == JsonFile(metadata_of(c.text, c.profile, c.output_format, coerced.payload))
        with_both == [exists |-> TRUE,
                      files |-> WriteFile(with_audio, metadata_path, sidecar)]
    IN  IF c.reply.kind = "raises"
        THEN [fs |-> made, out |-> TtsRaised(Raised("ApiError", "convert_with_timestamps", << >>))]
        ELSE IF coerced.err # NoError THEN [fs |-> made, out |-> TtsRaised(coerced.err)]
        ELSE IF audio.status = "raised" THEN [fs |-> made, out |-> TtsRaised(audio.err)]
        ELSE IF sidecar.kind # "json"
        THEN [fs |-> with_both, out |-> TtsRaised(Raised("TypeError", "json.dump", << >>))]
        ELSE [fs |-> with_both,
              out |-> TtsResult("returned", SomePath(output_path),
                                SomePath(metadata_path), NoError)]

\* The streaming branch of text_to_speech_file: [fs, out].
tts_streaming(dir, c, output_path) ==
    LET made == Mkdir(dir)
        joined == join_chunks(c.reply.chunks)
        written == [exists |-> TRUE,
                    files |-> WriteFile(made.files, output_path,
                                        audio_file_content(c.output_format, joined))]
        broken == TtsRaised(Raised("ApiError", "convert", << >>))
    IN  IF c.reply.kind = "raises" THEN [fs |-> made, out |-> broken]
        ELSE IF c.output_format = F_pcm_16000
        THEN IF c.reply.broken THEN [fs |-> made, out |-> broken]
             ELSE [fs |-> written,
                   out |-> TtsResult("returned", SomePath(output_path), NoPath, NoError)]
        ELSE IF c.reply.broken THEN [fs |-> written, out |-> broken]
        ELSE [fs |-> written,
              out |-> TtsResult("returned", SomePath(output_path), NoPath, NoError)]

\* text_to_speech_file(text, profile, output_dir, output_format,
\* filename_prefix, save_metadata) with the reply of the API and the value of
\* uuid4() in c: the directory afterwards and the result.
text_to_speech_file(dir, c) ==
    LET file_id == IF Truthy(c.filename_prefix) THEN c.filename_prefix.v ELSE c.uuid
        extension == extension_for_output_format(c.output_format)
        output_path == FileName(file_id, extension)
    IN  IF c.save_metadata
        THEN tts_with_metadata(dir, c, file_id, output_path)
        ELSE tts_streaming(dir, c, output_path)

-----------------------------------------------------------------------------
(* SpecTTS: one call of text_to_speech_file on an output directory.        *)

SampleText == << "h", "i" >>
SampleProfile ==
    build_profile(<< "a" >>,
                  MakeItem(Str(<< "a" >>), Str(<< "v", "1" >>), Str(<< "m", "1" >>), Absent)).profile

F_pcm_8000 == << "p", "c", "m", "_", "8", "0", "0", "0" >>
F_json_1 == << "j", "s", "o", "n", "_", "1" >>
F_opus == << "o", "p", "u", "s" >>
OutputFormats == {F_pcm_16000, F_pcm_8000, F_mp3_22050_32, F_json_1, F_opus}

P_out == << "o", "u", "t" >>
Prefixes == {None, Str(<< >>), Str(P_out)}
\* Values of str(uuid.uuid4()).
Uuids == {<< "0", "a", "-", "1" >>, << "0", "b", "-", "2" >>}

K_normalized_alignment ==
    << "n", "o", "r", "m", "a", "l", "i", "z", "e", "d", "_" >> \o K_alignment

\* Payloads of a reply of convert_with_timestamps.
TtsPayloads ==
    {DictOf(<< K_audio_base64, K_alignment, K_audio_base_64, K_normalized_alignment, K_audio >>,
            << a1, al, a2, na, a3 >>) :
        a1 \in {Absent, None, Str(b64encode(<< 77 >>))},
        al \in {Absent, Str(<< "h", "i" >>)},
        a2 \in {Absent, Str(b64encode(<< 0, 255 >>))},
        na \in {Absent, None, Bytes(<< 8 >>)},
        a3 \in {Absent, Bytes(<< 1 >>)}}
TtsAttrs == {<< >>, DictOf(<< K_audio_base_64 >>, << Str(b64encode(<< 5 >>)) >>)}
TtsResponses ==
    {Response(shape, p, a) :
        shape \in {"model", "model_plain", "legacy"}, p \in TtsPayloads, a \in TtsAttrs}
    \cup {Response(shape, p, << >>) : shape \in {"dict", "bag"}, p \in TtsPayloads}
    \cup {Response("opaque", << >>, << >>)}

ApiRaises == [kind |-> "raises", response |-> Response("opaque", << >>, << >>),
              chunks |-> << >>, broken |-> FALSE]
MetadataReplies ==
    {ApiRaises} \cup
    {[kind |-> "response", response |-> r, chunks |-> << >>, broken |-> FALSE] :
        r \in TtsResponses}
ChunkSamples == {<< >>, << 1 >>, << 2, 3 >>}
StreamReplies ==
    {ApiRaises} \cup
    {[kind |-> "stream", response |-> Response("opaque", << >>, << >>),
      chunks |-> ch, broken |-> b] :
        ch \in SeqsUpTo(ChunkSamples, MaxChunks), b \in BOOLEAN}

\* The output directory before the call: absent, or holding files of an
\* earlier run.
NoDir == [exists |-> FALSE, files |-> << >>]
StaleDir ==
    [exists |-> TRUE,
     files |-> (FileName(P_out, X_wav) :> RawFile(<< 9 >>))
               @@ (FileName(P_out, X_json) :> RawFile(<< 9, 9 >>))]

TtsCall(fmt, prefix, uuid, save_metadata, reply, before) ==
    [text |-> SampleText, profile |-> SampleProfile, output_format |-> fmt,
     filename_prefix |-> prefix, uuid |-> uuid, save_metadata |-> save_metadata,
     reply |-> reply, before |-> before]

TtsCalls ==
    {TtsCall(fmt, prefix, uuid, sm, reply, before) :
        fmt \in OutputFormats, prefix \in Prefixes, uuid \in Uuids,
        sm \in BOOLEAN, reply \in MetadataReplies \cup StreamReplies,
        before \in {NoDir, StaleDir}}

InitTTS ==
    /\ tts_call \in {c \in TtsCalls :
                        /\ c.reply \in (IF c.save_metadata THEN MetadataReplies ELSE StreamReplies)
                        /\ (Truthy(c.filename_prefix) => c.uuid = << "0", "a", "-", "1" >>)}
    /\ fs = tts_call.before
    /\ tts_out = TtsPending
    /\ config_dir = Unused /\ load_out = Unused
    /\ x_payload = Unused /\ x_response = Unused /\ x_out = Unused
    /\ args = Unused /\ env = Unused /\ pc = Unused
    /\ store = Unused /\ batch = Unused /\ trace = Unused

\* A call of text_to_speech_file with save_metadata.
TextToSpeechWithMetadata ==
    /\ tts_out.status = "pending"
    /\ tts_call.save_metadata
    /\ fs' = text_to_speech_file(fs, tts_call).fs
    /\ tts_out' = text_to_speech_file(fs, tts_call).out
    /\ UNCHANGED << tts_call, loader_vars, extract_vars, main_vars >>

\* A call of text_to_speech_file without save_metadata.
TextToSpeechStreaming ==
    /\ tts_out.status = "pending"
    /\ ~tts_call.save_metadata
    /\ fs' = text_to_speech_file(fs, tts_call).fs
    /\ tts_out' = text_to_speech_file(fs, tts_call).out
    /\ UNCHANGED << tts_call, loader_vars, extract_vars, main_vars >>

NextTTS == TextToSpeechWithMetadata \/ TextToSpeechStreaming
SpecTTS == InitTTS /\ [][NextTTS]_vars

\* What the claims about text_to_speech_file speak of.
TtsReturned == tts_out.status = "returned"
\* The id of the files of the call.
CallFileId ==
    IF tts_call.filename_prefix.t = "str" /\ tts_call.filename_prefix.v # << >>
    THEN tts_call.filename_prefix.v ELSE tts_call.uuid
\* The identifier up to its first underscore.
BeforeFirstUnderscore(fmt) ==
    CHOOSE p \in {SubSeq(fmt, 1, n) : n \in 0..Len(fmt)} :
        /\ Positions(p, "_") = {}
        /\ (Len(p) = Len(fmt) \/ fmt[Len(p) + 1] = "_")
RECURSIVE Flatten(_)
Flatten(chunks) == IF chunks = << >> THEN << >> ELSE Head(chunks) \o Flatten(Tail(chunks))
\* The audio bytes B of the call: extracted from the payload, or the chunks
\* joined.
CallAudio ==
    IF tts_call.save_metadata
    THEN extract_audio_bytes(to_serializable(tts_call.reply.response).payload,
                             tts_call.reply.response.attrs).bytes
    ELSE Flatten(tts_call.reply.chunks)
AudioFileAsClaimed ==
    LET ext == IF tts_call.output_format = F_pcm_16000
               THEN X_wav ELSE BeforeFirstUnderscore(tts_call.output_format)
        file == fs.files[tts_out.output_path.name]
    IN  /\ tts_out.output_path = SomePath(CallFileId \o << "." >> \o ext)
        /\ tts_out.output_path.name \in DOMAIN fs.files
        /\ IF tts_call.output_format = F_pcm_16000
           THEN /\ file.kind = "wav"
                /\ file.nchannels = 1 /\ file.sampwidth = 2 /\ file.framerate = 16000
                /\ file.data = CallAudio /\ file.data_size = Len(CallAudio)
           ELSE file = [kind |-> "raw", data |-> CallAudio]

\* C6: in the metadata path and in the streaming path alike, format pcm_16000
\* gives a file with extension wav that is a 1-channel, 2-byte, 16000 Hz
\* container with payload B, and any other format gives the extension before
\* the first underscore and a file that holds exactly B.
C6_AudioFileAsClaimed == TtsReturned => AudioFileAsClaimed

\* C6 apart from the collision of C10: the same, for calls whose audio file
\* is not the sidecar's.
C6_ExceptSidecarCollision ==
    (TtsReturned /\ tts_out.metadata_path # tts_out.output_path) => AudioFileAsClaimed

SidecarsOf(dir) ==
    {n \in DOMAIN dir.files : dir.files[n].kind \in {"json", "truncated json"}}
AudioKeys == {K_audio_base64, K_audio_base_64, K_audio}

\* C7: a metadata sidecar is written if and only if save_metadata is asked
\* for (the streaming path writes none and returns None as its second value),
\* and the sidecar's response holds none of audio_base64, audio_base_64 and
\* audio, and every other key of the payload with its value.
C7_SidecarWithoutAudio ==
    /\ (tts_out.status # "pending" /\ ~tts_call.save_metadata) =>
            /\ tts_out.metadata_path = NoPath
            /\ SidecarsOf(fs) = SidecarsOf(tts_call.before)
    /\ TtsReturned =>
        LET payload == to_serializable(tts_call.reply.response).payload
        IN  /\ tts_out.metadata_path.some <=> tts_call.save_metadata
            /\ tts_call.save_metadata =>
                LET sidecar == fs.files[tts_out.metadata_path.name]
                IN  /\ tts_out.metadata_path.name = CallFileId \o << ".", "j", "s", "o", "n" >>
                    /\ sidecar.kind = "json"
                    /\ DictKeys(sidecar.doc.response) = DictKeys(payload) \ AudioKeys
                    /\ \A k \in DictKeys(payload) \ AudioKeys :
                        DictGet(sidecar.doc.response, k, Absent) = DictGet(payload, k, Absent)

\* C7 witness: a payload with all three audio keys and two more keys, and
\* the call returned a sidecar.
C7_Witness ==
    /\ TtsReturned
    /\ tts_call.save_metadata
    /\ tts_call.reply.response.has_model_dump
    /\ AudioKeys \subseteq DictKeys(tts_call.reply.response.dump_plain.d)
    /\ Cardinality(DictKeys(tts_call.reply.response.dump_plain.d)) = 5
    /\ tts_out.metadata_path.name \in DOMAIN fs.files

\* C10: when metadata is asked for, the sidecar's path differs from the audio
\* file's path, and after the call the audio path holds the audio.
C10_SidecarBesideAudio ==
    (TtsReturned /\ tts_call.save_metadata) =>
        /\ tts_out.metadata_path # tts_out.output_path
        /\ fs.files[tts_out.output_path.name] =
                audio_file_content(tts_call.output_format, CallAudio)

-----------------------------------------------------------------------------
(* test_elevenlabs_tts.py: the command line driver.                        *)

\* ElevenLabsTTS.__init__ accepts any key that is not None.
key_missing_only_if_none(key) == key = None

\* ElevenLabsTTS.__init__: `if not key`.
key_missing(key) == ~Truthy(key)

\* os.getenv("ELEVENLABS_API_KEY") after load_dotenv(), which sets the
\* variables of .env that the process environment does not have yet.
getenv_after_load_dotenv(e) ==
    IF e.environ # Absent THEN e.environ
    ELSE IF e.dotenv # Absent THEN e.dotenv
    ELSE None

\* ElevenLabsTTS(api_key): the error raised, or NoError.
construct_tts(api_key, e) ==
    LET key == IF Truthy(api_key) THEN api_key ELSE getenv_after_load_dotenv(e)
    IN  IF key_missing(key)
        THEN Raised("ValueError", "ELEVENLABS_API_KEY is not set", << >>)
        ELSE NoError

\* _read_input_lines: the usable lines of the raw lines of the input file.
RECURSIVE read_input_lines(_)
read_input_lines(raw_lines) ==
    IF raw_lines = << >> THEN << >>
    ELSE LET line == Strip(Head(raw_lines))
         IN  (IF line = << >> \/ StartsWith(line, << "#" >>) THEN << >> ELSE << line >>)
             \o read_input_lines(Tail(raw_lines))

DigitChars == << "0", "1", "2", "3", "4", "5", "6", "7", "8", "9" >>
RECURSIVE Digits(_)
Digits(n) ==
    IF n < 10 THEN << DigitChars[n + 1] >>
    ELSE Digits(n \div 10) \o << DigitChars[(n % 10) + 1] >>
RECURSIVE ZeroPad(_, _)
ZeroPad(s, width) == IF Len(s) >= width THEN s ELSE ZeroPad(<< "0" >> \o s, width)
\* f"{idx:03d}"
format_03d(idx) == ZeroPad(Digits(idx), 3)

\* The filename prefix of batch item idx.
batch_prefix(name, idx) ==
    IF Truthy(name) THEN name.v \o << "_" >> \o format_03d(idx) ELSE format_03d(idx)

\* Every batch item is played.
should_play_every_item(play, idx) == play

\* `if args.play and idx == 1`
should_play(play, idx) == play /\ idx = 1

PlayerOrder == << "afplay", "ffplay", "aplay", "paplay" >>
\* _play_audio: the error raised, or NoError, with the players that
\* shutil.which finds and the exit code of the one that is run.
play_audio(available, exit_code) ==
    LET found == SelectSeq(PlayerOrder, LAMBDA p : p \in available)
    IN  IF found = << >> THEN Raised("RuntimeError", "no supported audio player", << >>)
        ELSE IF exit_code # 0 THEN Raised("CalledProcessError", found[1], << >>)
        ELSE NoError

\* An observable step of main: a profile load, a listing, a synthesis call,
\* a playback, an uncaught exception.
Event(ev, idx, prefix, text, err) ==
    [ev |-> ev, idx |-> idx, prefix |-> prefix, text |-> text, err |-> err]

-----------------------------------------------------------------------------
(* SpecMain: a run of main().                                              *)

P_a == << "a" >>
P_b == << "b" >>
GoodItem(stem) == MakeItem(Str(stem), Str(<< "v", "1" >>), Str(<< "m", "1" >>), Absent)
\* The profile directories a run may find at --config.
MainDirectories ==
    {NotADirectory,
     [is_dir |-> TRUE,
      files |-> ((P_a \o JsonSuffix) :> GoodItem(P_a)) @@ ((P_b \o JsonSuffix) :> GoodItem(P_b)),
      marker |-> [exists |-> TRUE, text |-> << "b", "\n" >>]],
     [is_dir |-> TRUE,
      files |-> ((P_b \o JsonSuffix) :> GoodItem(<< "x" >>)),
      marker |-> NoMarker]}

LineSamples == {<< >>, << " ", "#", "c" >>, << "h", "i" >>, << " ", "y", "o", " " >>}
\* The raw lines of the batch input file.
InputFiles == SeqsUpTo(LineSamples, MaxLines)

MainArgs ==
    [list : BOOLEAN,
     profile : {None, Str(P_a), Str(<< "z", "z" >>)},
     input_file : BOOLEAN,
     name : {None, Str(P_out)},
     no_metadata : BOOLEAN,
     play : BOOLEAN,
     format : {F_pcm_16000, F_mp3_22050_32},
     text : {SampleText}]
K_key == << "k" >>
MainEnvs == [environ : {Absent, Str(<< >>), Str(K_key)}, dotenv : {Absent, Str(K_key)}]

\* The replies of the API tried in a run.
MainReplies(save_metadata) ==
    IF save_metadata
    THEN {ApiRaises,
          [kind |-> "response",
           response |-> Response("model",
                                 DictOf(<< K_audio_base64, K_alignment >>,
                                        << Str(b64encode(<< 77 >>)), Str(<< "h", "i" >>) >>),
                                 << >>),
           chunks |-> << >>, broken |-> FALSE]}
    ELSE {ApiRaises,
          [kind |-> "stream", response |-> Response("opaque", << >>, << >>),
           chunks |-> << << 1 >>, << 2, 3 >> >>, broken |-> FALSE]}

NoStore == [profiles |-> << >>, default_profile |-> << >>, chosen |-> NoProfile]
NoBatch == [lines |-> << >>, texts |-> << >>, idx |-> 0]

InitMain ==
    /\ args \in MainArgs
    /\ env \in MainEnvs
    /\ pc = "start"
    /\ store = NoStore
    /\ batch = NoBatch
    /\ trace = << >>
    /\ fs = NoDir
    /\ config_dir = Unused /\ load_out = Unused
    /\ x_payload = Unused /\ x_response = Unused /\ x_out = Unused
    /\ tts_call = Unused /\ tts_out = Unused

Fail(err) ==
    /\ pc' = "exit_error"
    /\ trace' = Append(trace, Event("error", 0, << >>, << >>, err))
Step(next_pc, ev) ==
    /\ pc' = next_pc
    /\ trace' = Append(trace, ev)
StepThenFail(ev, err) ==
    /\ pc' = "exit_error"
    /\ trace' = trace \o << ev, Event("error", 0, << >>, << >>, err) >>
not_main_vars == << loader_vars, extract_vars, tts_vars >>

\* main, line 78: load_voice_profiles(args.config).
LoadProfiles ==
    /\ pc = "start"
    /\ \E dir \in MainDirectories :
        LET loaded == load_voice_profiles(dir)
            ev == Event("load_profiles", 0, << >>, << >>, NoError)
        IN  IF loaded.status = "raised"
            THEN StepThenFail(ev, loaded.err) /\ UNCHANGED store
            ELSE /\ Step("loaded", ev)
                 /\ store' = [profiles |-> loaded.profiles,
                              default_profile |-> loaded.default_profile,
                              chosen |-> NoProfile]
    /\ UNCHANGED << args, env, batch, fs, not_main_vars >>

\* main, lines 80-87: --list prints the profiles and returns 0.
ListProfiles ==
    /\ pc = "loaded"
    /\ args.list
    /\ Step("exit_ok",
            Event("list", 0, << >>,
                  [i \in 1..Len(store.profiles) |->
                      [name |-> store.profiles[i].k,
                       is_default |-> store.profiles[i].k = store.default_profile]],
                  NoError))
    /\ UNCHANGED << args, env, store, batch, fs, not_main_vars >>

\* main, lines 89-96: the profile asked for, or the default.
ChooseProfile ==
    /\ pc = "loaded"
    /\ ~args.list
    /\ LET chosen_name == IF Truthy(args.profile) THEN args.profile.v
                          ELSE store.default_profile
       IN  IF ~DictHas(store.profiles, chosen_name)
           THEN Fail(Raised("ValueError", "unknown profile", chosen_name))
                /\ UNCHANGED store
           ELSE /\ Step("chosen", Event("choose", 0, << >>, chosen_name, NoError))
                /\ store' = [store EXCEPT !.chosen = DictGet(store.profiles, chosen_name, NoProfile)]
    /\ UNCHANGED << args, env, batch, fs, not_main_vars >>

\* main, line 97: ElevenLabsTTS().
ConstructTTS ==
    /\ pc = "chosen"
    /\ IF construct_tts(None, env) # NoError
       THEN Fail(construct_tts(None, env))
       ELSE Step("ready", Event("construct", 0, << >>, << >>, NoError))
    /\ UNCHANGED << args, env, store, batch, fs, not_main_vars >>

\* main, lines 99-105: the batch input file is read.
ReadInputFile ==
    /\ pc = "ready"
    /\ args.input_file
    /\ \E readable \in BOOLEAN, raw_lines \in InputFiles :
        IF ~readable
        THEN /\ raw_lines = << >>
             /\ Fail(Raised("FileNotFoundError", "input file", << >>))
             /\ UNCHANGED batch
        ELSE IF read_input_lines(raw_lines) = << >>
        THEN /\ Fail(Raised("ValueError", "no usable lines", << >>))
             /\ batch' = [lines |-> raw_lines, texts |-> << >>, idx |-> 0]
        ELSE /\ Step("batch", Event("read", 0, << >>, << >>, NoError))
             /\ batch' = [lines |-> raw_lines, texts |-> read_input_lines(raw_lines), idx |-> 1]
    /\ UNCHANGED << args, env, store, fs, not_main_vars >>

MainCall(text, prefix, uuid, reply) ==
    [text |-> text, profile |-> store.chosen, output_format |-> args.format,
     filename_prefix |-> prefix, uuid |-> uuid, save_metadata |-> ~args.no_metadata,
     reply |-> reply, before |-> fs]

\* One synthesis of main and what follows it (the prints, the playback):
\* next_pc is where main goes when nothing raises.
Synthesize(idx, text, prefix, play, next_pc) ==
    \E reply \in MainReplies(~args.no_metadata), uuid \in Uuids,
       available \in {{}, {"ffplay", "aplay"}}, exit_code \in {0, 1} :
        LET done == text_to_speech_file(fs, MainCall(text, prefix, uuid, reply))
            synth == Event("synthesize", idx, prefix, text, NoError)
            played == Event("play", idx, prefix, done.out.output_path.name,
                            play_audio(available, exit_code))
        IN  /\ fs' = done.fs
            /\ IF done.out.status = "raised" THEN StepThenFail(synth, done.out.err)
               ELSE IF ~play THEN Step(next_pc, synth)
               ELSE IF played.err # NoError
               THEN /\ pc' = "exit_error"
                    /\ trace' = trace \o << synth, played,
                                            Event("error", 0, << >>, << >>, played.err) >>
               ELSE /\ pc' = next_pc
                    /\ trace' = trace \o << synth, played >>

\* main, lines 106-122: one iteration of the batch loop.
SynthesizeBatchItem ==
    /\ pc = "batch"
    /\ Synthesize(batch.idx, batch.texts[batch.idx],
                  Str(batch_prefix(args.name, batch.idx)),
                  should_play(args.play, batch.idx),
                  IF batch.idx = Len(batch.texts) THEN "exit_ok" ELSE "batch")
    /\ batch' = [batch EXCEPT !.idx = @ + 1]
    /\ UNCHANGED << args, env, store, not_main_vars >>

\* main, lines 124-140: the single synthesis of --text.
SynthesizeSingle ==
    /\ pc = "ready"
    /\ ~args.input_file
    /\ Synthesize(0, args.text, args.name, args.play, "exit_ok")
    /\ UNCHANGED << args, env, store, batch, not_main_vars >>

NextMain ==
    \/ LoadProfiles
    \/ ListProfiles
    \/ ChooseProfile
    \/ ConstructTTS
    \/ ReadInputFile
    \/ SynthesizeBatchItem
    \/ SynthesizeSingle
SpecMain == InitMain /\ [][NextMain]_vars

\* What the claims about main speak of.
\* No API key: none is passed to ElevenLabsTTS() by main, and the process
\* environment (with the variables of .env it lacks) has none, or an empty one.
NoApiKey ==
    \/ env.environ = Str(<< >>)
    \/ (env.environ = Absent /\ env.dotenv \in {Absent, Str(<< >>)})
EventsOf(kind) == SelectSeq(trace, LAMBDA e : e.ev = kind)
Exited == pc \in {"exit_ok", "exit_error"}
LastError == trace[Len(trace)].err
MissingKeyError == Raised("ValueError", "ELEVENLABS_API_KEY is not set", << >>)

\* C1 as stated: with no API key the run ends in the missing-key error
\* before load_voice_profiles reads the profile directory and before any
\* synthesis call, whatever the arguments.
C1_Original ==
    NoApiKey =>
        /\ EventsOf("load_profiles") = << >>
        /\ EventsOf("synthesize") = << >>
        /\ Exited => (pc = "exit_error" /\ LastError = MissingKeyError)

\* C1 amended: with no API key no synthesis call is made and nothing is
\* written; the key is looked at when the client is constructed, after the
\* profiles are loaded and the profile is chosen, and a run that gets there
\* ends in the missing-key error; a run with --list ends successfully, and
\* a run whose profiles do not load or whose profile is unknown ends in that
\* error, without the key being looked at.
C1_NoKeyNoSynthesis ==
    NoApiKey =>
        /\ EventsOf("synthesize") = << >>
        /\ fs = NoDir
        /\ pc \notin {"ready", "batch"}
        /\ pc = "exit_ok" => (args.list /\ trace[Len(trace)].ev = "list")
        /\ (pc = "exit_error" /\ store.chosen # NoProfile) =>
                /\ LastError = MissingKeyError
                /\ trace[1].ev = "load_profiles"
                /\ EventsOf("choose") # << >>
        /\ (pc = "exit_error" /\ store.chosen = NoProfile) =>
                LastError # MissingKeyError

\* C1 witness: no key, and the run ended in the missing-key error after the
\* profiles were loaded and the default profile was chosen.
C1_Witness ==
    /\ NoApiKey
    /\ env.environ = Str(<< >>)
    /\ pc = "exit_error"
    /\ LastError = MissingKeyError
    /\ Len(store.profiles) = 2
    /\ store.chosen.name = store.default_profile

\* The usable lines of the input file: trimmed, neither empty nor a comment.
UsableLines ==
    LET kept == SelectSeq(batch.lines,
                          LAMBDA l : Strip(l) # << >> /\ Head(Strip(l)) # "#")
    IN  [i \in 1..Len(kept) |-> Strip(kept[i])]
\* k as three decimal digits.
ThreeDigits(k) ==
    << DigitChars[(k \div 100) + 1], DigitChars[((k \div 10) % 10) + 1],
       DigitChars[(k % 10) + 1] >>
ClaimedPrefix(k) ==
    IF args.name = None THEN ThreeDigits(k)
    ELSE args.name.v \o << "_" >> \o ThreeDigits(k)

\* C8: in batch mode the usable lines are synthesized one after the other in
\* file order, item k under the prefix with the 3-digit index k; a failure
\* ends the run, so no item after it is synthesized and none is retried; a
\* playback is attempted for item 1 only.
C8_BatchSequentialFailFast ==
    (args.input_file /\ pc \in {"batch", "exit_ok", "exit_error"}) =>
        LET synth == EventsOf("synthesize")
            plays == EventsOf("play")
        IN  /\ Len(synth) <= Len(UsableLines)
            /\ \A k \in 1..Len(synth) :
                /\ synth[k].idx = k
                /\ synth[k].text = UsableLines[k]
                /\ synth[k].prefix = Str(ClaimedPrefix(k))
            /\ \A i \in 1..Len(trace) :
                trace[i].ev = "error" => (i = Len(trace) /\ pc = "exit_error")
            /\ pc = "batch" => (batch.idx = Len(synth) + 1 /\ Len(synth) < Len(UsableLines))
            /\ pc = "exit_ok" => Len(synth) = Len(UsableLines)
            /\ \A i \in 1..Len(plays) : plays[i].idx = 1 /\ args.play
            /\ Len(plays) <= 1
            /\ (args.play /\ Len(synth) >= 2) => Len(plays) = 1

\* C8 witness: two usable lines among comments or blanks, the first item was
\* synthesized and played, the synthesis of the second failed and the run
\* ended there.
C8_Witness ==
    /\ args.input_file /\ args.play
    /\ pc = "exit_error"
    /\ Len(UsableLines) = 2
    /\ batch.lines # UsableLines
    /\ Len(EventsOf("synthesize")) = 2
    /\ Len(EventsOf("play")) = 1
    /\ LastError.class = "ApiError"

Spec == SpecLoader
=============================================================================
